---- MODULE Spec2Model ----
(***************************************************************************)
(* Layout-based extraction of bank-statement transactions                  *)
(* (extract_table.py): the word grouper, the line classifier, the column   *)
(* assigner, the transaction assembler and the amount/date normaliser.     *)
(*                                                                         *)
(* A text is a sequence of one-character strings, so that substring tests, *)
(* case folding, regular-expression matches and digit extraction are       *)
(* computed character by character, as the Python code computes them.      *)
(***************************************************************************)
EXTENDS Integers, Sequences, FiniteSets, TLC

VARIABLES pc, rows, sorted_keys, current_tx, transactions,
          line_words, outcome, seen, df, df_clean, amount,
          doc, doc_again, df_again, solde_prec, df_final,
          pdf_files, success_count, attempted

vars == <<pc, rows, sorted_keys, current_tx, transactions,
          line_words, outcome, seen, df, df_clean, amount,
          doc, doc_again, df_again, solde_prec, df_final,
          pdf_files, success_count, attempted>>

\* The locals of one scan of extract_transactions_from_pdf, with its log.
scan_vars == <<rows, sorted_keys, current_tx, transactions,
               line_words, outcome, seen>>

\* What the callers of the extraction hold: the document handed over whole
\* and handed over a second time, the preceding balance, the exported table
\* and the state of the batch of run_full_extraction.
caller_vars == <<doc, doc_again, df_again, solde_prec, df_final,
                 pdf_files, success_count, attempted>>

(***************************************************************************)
(* Bounds of the model.                                                    *)
(***************************************************************************)
\* Rows (visual lines) of one document, over all its pages.
MaxLines == 4

(***************************************************************************)
(* Characters and texts.                                                   *)
(***************************************************************************)
Digits == {"0", "1", "2", "3", "4", "5", "6", "7", "8", "9"}

\* The letters of the texts that have a lower-case form, each with that form.
lower_case ==
    ("A" :> "a") @@ ("B" :> "b") @@ ("C" :> "c") @@ ("D" :> "d") @@ ("E" :>
    "e") @@ ("F" :> "f") @@ ("G" :> "g") @@ ("H" :> "h") @@ ("I" :> "i") @@
    ("J" :> "j") @@ ("K" :> "k") @@ ("L" :> "l") @@ ("M" :> "m") @@ ("N" :>
    "n") @@ ("O" :> "o") @@ ("P" :> "p") @@ ("Q" :> "q") @@ ("R" :> "r") @@
    ("S" :> "s") @@ ("T" :> "t") @@ ("U" :> "u") @@ ("V" :> "v") @@ ("W" :>
    "w") @@ ("X" :> "x") @@ ("Y" :> "y") @@ ("Z" :> "z") @@ ("É" :> "é") @@
    ("È" :> "è") @@ ("À" :> "à")

\* str.lower() on one character.
lower_char(c) == IF c \in DOMAIN lower_case THEN lower_case[c] ELSE c

RECURSIVE lower(_)
\* str.lower()
lower(s) ==
    IF s = <<>> THEN <<>> ELSE <<lower_char(Head(s))>> \o lower(Tail(s))

\* Python's `sub in s` on strings.
Contains(sub, s) ==
    \/ sub = <<>>
    \/ \E i \in 1..(Len(s) - Len(sub) + 1) :
          s[i] = sub[1] /\ SubSeq(s, i, i + Len(sub) - 1) = sub

\* s.replace(c, "") for a one-character c.
remove_char(s, c) == SelectSeq(s, LAMBDA ch : ch # c)

RECURSIVE join(_, _)
\* sep.join(texts)
join(sep, texts) ==
    IF texts = <<>> THEN <<>>
    ELSE IF Len(texts) = 1 THEN texts[1]
    ELSE texts[1] \o sep \o join(sep, Tail(texts))

RECURSIVE texts_of(_)
\* [w[4] for w in words]
texts_of(words) ==
    IF words = <<>> THEN <<>> ELSE <<Head(words).text>> \o texts_of(Tail(words))

(***************************************************************************)
(* Literals of the source.                                                 *)
(***************************************************************************)
p_Date == <<"D", "a", "t", "e">>
p_Libelle == <<"L", "i", "b", "e", "l", "l", "é">>
p_Valeur == <<"V", "a", "l", "e", "u", "r">>
p_Debit == <<"D", "é", "b", "i", "t">>
p_Credit == <<"C", "r", "é", "d", "i", "t">>
p_Solde == <<"S", "o", "l", "d", "e">>
p_SoldePrecedent == <<"S", "o", "l", "d", "e", " ", "p", "r", "é", "c", "é", "d", "e", "n", "t">>
p_Page == <<"P", "a", "g", "e">>
p_EditeLe == <<"E", "d", "i", "t", "é", " ", "l", "e">>
p_Www == <<"w", "w", "w", ".", "o", "r", "a", "b", "a", "n", "k", ".", "n", "e", "t">>
p_Orabank == <<"O", "R", "A", "B", "A", "N", "K">>
p_CapitalDe == <<"C", "a", "p", "i", "t", "a", "l", " ", "d", "e">>
p_Rccm == <<"R", "C", "C", "M">>
p_Veuillez == <<"V", "e", "u", "i", "l", "l", "e", "z", " ", "n", "o", "t", "e", "r", " ", "q", "u", "e", " ", "v", "o", "u", "s", " ", "d", "i", "s", "p", "o", "s", "e", "z">>
p_Place == <<"P", "l", "a", "c", "e", " ", "d", "e", " ", "l", "'", "i", "n", "d", "é", "p", "e", "n", "d", "a", "n", "c", "e">>
p_Tel == <<"T", "é", "l", ".", " ", ":">>

ignore_patterns ==
    << p_Date, p_Libelle, p_Valeur, p_Debit, p_Credit, p_Solde,
       p_SoldePrecedent,
       p_Page, p_EditeLe, p_Www, p_Orabank, p_CapitalDe, p_Rccm,
       p_Veuillez, p_Place, p_Tel >>

s_total == <<"t", "o", "t", "a", "l">>
s_totalgeneral == <<"t", "o", "t", "a", "l", "g", "é", "n", "é", "r", "a", "l">>
s_totaldesmouvements == <<"t", "o", "t", "a", "l", "d", "e", "s", "m", "o", "u", "v", "e", "m", "e", "n", "t", "s">>
s_totaldeb == <<"t", "o", "t", "a", "l", "d", "e", "b">>

\* COLUMN_BOUNDS
date_limit == 90
libelle_limit == 260
valeur_limit == 350
debit_limit == 430
credit_limit == 515

\* line_words[i:i+8]
snippet_words == 8

\* The keys of a transaction accumulator, and of a row of the returned table.
tx_keys == {"Date", "Date Valeur", "Libellé", "Débit", "Crédit", "Solde"}

\* An accumulator of six fields of empty text in place of the empty dict.
blank_dict == [k \in {"Date", "Date Valeur", "Libellé", "Débit", "Crédit", "Solde"} |-> <<>>]

\* current_tx = {}
empty_dict == [k \in {} |-> <<>>]

\* The accumulator of a new transaction: six fields of empty text.
new_tx == [k \in tx_keys |-> <<>>]

\* Truth value of a dict: it has at least one key.
truthy(d) == DOMAIN d # {}

(***************************************************************************)
(* Word grouper.  A word is [x0, y0, text, block_no, line_no], the entries *)
(* 0, 1, 4, 5 and 6 of a tuple of page.get_text("words").                   *)
(***************************************************************************)
key_of(w) == <<w.block_no, w.line_no>>

\* Order of Python tuples (block, line).
key_less(a, b) == a[1] < b[1] \/ (a[1] = b[1] /\ a[2] < b[2])

\* rows: each key to the words that carry it, in the order of the collection.
group_rows(words) ==
    [k \in {key_of(words[i]) : i \in 1..Len(words)} |->
        SelectSeq(words, LAMBDA w : key_of(w) = k)]

RECURSIVE sorted_seq(_)
\* sorted(rows.keys())
sorted_seq(keys) ==
    IF keys = {} THEN <<>>
    ELSE LET m == CHOOSE k \in keys : \A o \in keys \ {k} : key_less(k, o)
         IN  <<m>> \o sorted_seq(keys \ {m})

\* One step of a stable sort: w goes after every word whose x0 is not larger.
insert_by_x(sorted, w) ==
    LET n == Cardinality({i \in 1..Len(sorted) : sorted[i].x0 <= w.x0})
    IN  SubSeq(sorted, 1, n) \o <<w>> \o SubSeq(sorted, n + 1, Len(sorted))

RECURSIVE sort_by_x(_)
\* line_words.sort(key=lambda x: x[0]); list.sort is stable.
sort_by_x(ws) ==
    IF ws = <<>> THEN <<>>
    ELSE insert_by_x(sort_by_x(SubSeq(ws, 1, Len(ws) - 1)), ws[Len(ws)])

(***************************************************************************)
(* Line classifier.                                                        *)
(***************************************************************************)
\* "".join([wx[4] for wx in line_words[i:i+8]]).replace(" ", "").lower(),
\* with i counted from 1.
snippet(line, i) ==
    LET last == IF i + snippet_words - 1 < Len(line)
                THEN i + snippet_words - 1 ELSE Len(line)
    IN  lower(remove_char(join(<<>>, texts_of(SubSeq(line, i, last))), " "))

\* The word at i (from 1) fires the truncation.
triggers(line, i) ==
    /\ Contains(s_total, lower(line[i].text))
    /\ \/ Contains(s_totalgeneral, snippet(line, i))
       \/ Contains(s_totaldesmouvements, snippet(line, i))
       \/ Contains(s_totaldeb, snippet(line, i))
       \/ Contains(s_totalgeneral, lower(remove_char(line[i].text, " ")))

RECURSIVE scan_total(_, _)
\* `for i, w in enumerate(line_words)` from the word at i (from 1) on: the
\* 0-based index of the first word that fires, where the loop breaks, or -1.
scan_total(line, i) ==
    IF i > Len(line) THEN -1
    ELSE IF triggers(line, i) THEN i - 1
    ELSE scan_total(line, i + 1)

\* trunc_index after the scan.
trunc_index(line) == scan_total(line, 1)

\* The slice taken one word too far: the word that fires stays on the line.
truncate_through(line) ==
    LET ti == trunc_index(line)
    IN  IF ti # -1 THEN SubSeq(line, 1, ti + 1) ELSE line

\* line_words after `if trunc_index != -1: line_words = line_words[:trunc_index]`
truncate(line) ==
    LET ti == trunc_index(line)
    IN  IF ti # -1 THEN SubSeq(line, 1, ti) ELSE line

\* " ".join([w[4] for w in line_words])
full_line_text(line) == join(<<" ">>, texts_of(line))

\* A pattern found in the line skips it, the guards on "Date" and "Page" left
\* out.
pattern_skips_unguarded(pattern, full) == Contains(pattern, full)

\* One round of `for pattern in ignore_patterns` sets should_skip.
pattern_skips(pattern, full) ==
    /\ Contains(pattern, full)
    /\ IF pattern = p_Date /\ ~(Contains(p_Date, full) /\ Contains(p_Libelle, full))
       THEN FALSE
       ELSE IF pattern = p_Page
       THEN Contains(<<"/">>, full)
       ELSE TRUE

\* The header told by its words in reading order, "Date" somewhere before
\* "Libellé", with the words of the header no longer patterns of their own.
should_skip_ordered(full) ==
    \/ \E i \in 7..Len(ignore_patterns) : pattern_skips(ignore_patterns[i], full)
    \/ \E i \in 1..Len(full) :
          /\ Contains(p_Date, SubSeq(full, 1, i))
          /\ Contains(p_Libelle, SubSeq(full, i + 1, Len(full)))

\* The filter left out for a line that begins with a date: the test of a
\* transaction start taken before the filter.
should_skip_unless_dated(full) ==
    /\ ~(/\ Len(full) >= 10
         /\ \A i \in {1, 2, 4, 5, 7, 8, 9, 10} : full[i] \in Digits
         /\ full[3] = "/"
         /\ full[6] = "/"
         /\ Len(full) > 10 => full[11] = " ")
    /\ \/ \E i \in 1..Len(ignore_patterns) : pattern_skips(ignore_patterns[i], full)
       \/ (Contains(p_Date, full) /\ Contains(p_Libelle, full))

\* should_skip after the loop and the header refinement.
should_skip(full) ==
    \/ \E i \in 1..Len(ignore_patterns) : pattern_skips(ignore_patterns[i], full)
    \/ (Contains(p_Date, full) /\ Contains(p_Libelle, full))

\* The pattern without its end: two digits of a year are enough.
match_date_unanchored(text) ==
    /\ Len(text) >= 8
    /\ \A i \in {1, 2, 4, 5, 7, 8} : text[i] \in Digits
    /\ text[3] = "/"
    /\ text[6] = "/"

\* re.match(r"^\d{2}/\d{2}/\d{4}$", text)
match_date(text) ==
    /\ Len(text) = 10
    /\ \A i \in {1, 2, 4, 5, 7, 8, 9, 10} : text[i] \in Digits
    /\ text[3] = "/"
    /\ text[6] = "/"

\* The test of a new transaction on a kept line.
is_start(line) ==
    line[1].x0 < date_limit /\ match_date(line[1].text)

(***************************************************************************)
(* Column assigner.                                                        *)
(***************************************************************************)
\* The chain with <= in place of <: a word on a threshold goes left.
column_of_inclusive(x) ==
    IF x <= date_limit THEN "Date"
    ELSE IF x <= libelle_limit THEN "Libellé"
    ELSE IF x <= valeur_limit THEN "Date Valeur"
    ELSE IF x <= debit_limit THEN "Débit"
    ELSE IF x <= credit_limit THEN "Crédit"
    ELSE "Solde"

\* The branch of the if/elif chain taken by a word at x.
column_of(x) ==
    IF x < date_limit THEN "Date"
    ELSE IF x < libelle_limit THEN "Libellé"
    ELSE IF x < valeur_limit THEN "Date Valeur"
    ELSE IF x < debit_limit THEN "Débit"
    ELSE IF x < credit_limit THEN "Crédit"
    ELSE "Solde"

\* The assignment with the test of the Date inverted: the date is never kept.
assign_word_date_lost(tx, w) ==
    LET col == column_of(w.x0) IN
    IF col = "Date"
    THEN IF tx["Date"] # <<>> THEN [tx EXCEPT !["Date"] = w.text] ELSE tx
    ELSE IF col = "Libellé"
    THEN [tx EXCEPT !["Libellé"] = @ \o w.text \o <<" ">>]
    ELSE [tx EXCEPT ![col] = @ \o w.text]

\* The assignment with the Libellé appended like the other columns, without
\* the space.
assign_word_no_space(tx, w) ==
    LET col == column_of(w.x0) IN
    IF col = "Date"
    THEN IF tx["Date"] = <<>> THEN [tx EXCEPT !["Date"] = w.text] ELSE tx
    ELSE [tx EXCEPT ![col] = @ \o w.text]

\* The body of `for w in line_words` for one word.
assign_word(tx, w) ==
    LET col == column_of(w.x0) IN
    IF col = "Date"
    THEN IF tx["Date"] = <<>> THEN [tx EXCEPT !["Date"] = w.text] ELSE tx
    ELSE IF col = "Libellé"
    THEN [tx EXCEPT !["Libellé"] = @ \o w.text \o <<" ">>]
    ELSE [tx EXCEPT ![col] = @ \o w.text]

RECURSIVE distribute(_, _)
\* for w in line_words: ...
distribute(tx, line) ==
    IF line = <<>> THEN tx
    ELSE distribute(assign_word(tx, Head(line)), Tail(line))

(***************************************************************************)
(* Transaction assembler.                                                  *)
(***************************************************************************)
\* The flush that tests a field in place of the dict: a transaction without
\* description is lost.
flush_described(txs, tx) ==
    IF truthy(tx) /\ tx["Libellé"] # <<>> THEN Append(txs, tx) ELSE txs

\* `if current_tx: transactions.append(current_tx)`
flush(txs, tx) == IF truthy(tx) THEN Append(txs, tx) ELSE txs

(***************************************************************************)
(* The returned table.                                                     *)
(***************************************************************************)
\* Characters that str.strip() and the pattern \s treat as white space.
WhiteSpace == {" "}

RECURSIVE lstrip(_)
lstrip(t) ==
    IF t # <<>> /\ Head(t) \in WhiteSpace THEN lstrip(Tail(t)) ELSE t

RECURSIVE rstrip(_)
rstrip(t) ==
    IF t # <<>> /\ t[Len(t)] \in WhiteSpace
    THEN rstrip(SubSeq(t, 1, Len(t) - 1)) ELSE t

\* str.strip()
strip(t) == rstrip(lstrip(t))

RECURSIVE collapse_spaces(_)
\* str.replace(r'\s+', ' ', regex=True)
collapse_spaces(t) ==
    IF t = <<>> THEN <<>>
    ELSE IF Head(t) \in WhiteSpace
    THEN <<" ">> \o collapse_spaces(lstrip(t))
    ELSE <<Head(t)>> \o collapse_spaces(Tail(t))

\* The cleaning of the column Libellé.
clean_libelle(t) == collapse_spaces(strip(remove_char(t, "|")))

\* One row of the DataFrame after the cleaning and the renaming of columns.
to_row(tx) ==
    [date        |-> tx["Date"],
     date_valeur |-> tx["Date Valeur"],
     libelle     |-> clean_libelle(tx["Libellé"]),
     debit       |-> tx["Débit"],
     credit      |-> tx["Crédit"],
     solde       |-> tx["Solde"]]

\* pd.DataFrame(transactions), cleaned and renamed; pd.DataFrame() when there
\* is no transaction.
to_dataframe(txs) == [i \in 1..Len(txs) |-> to_row(txs[i])]

(***************************************************************************)
(* Amount and date normaliser.                                             *)
(***************************************************************************)
\* The amount read as a decimal number cut at its separator: the digits up to
\* the first comma or point.
digits_before_separator(text) ==
    LET seps == {i \in 1..Len(text) : text[i] \in {",", "."}}
        stop == IF seps = {} THEN Len(text) + 1
                ELSE CHOOSE i \in seps : \A j \in seps : i <= j
    IN  SelectSeq(SubSeq(text, 1, stop - 1), LAMBDA ch : ch \in Digits)

\* re.sub(r'[^\d]', '', text)
digits_only(text) == SelectSeq(text, LAMBDA ch : ch \in Digits)

digit_value(ch) ==
    CASE ch = "0" -> 0 [] ch = "1" -> 1 [] ch = "2" -> 2 [] ch = "3" -> 3
      [] ch = "4" -> 4 [] ch = "5" -> 5 [] ch = "6" -> 6 [] ch = "7" -> 7
      [] ch = "8" -> 8 [] ch = "9" -> 9

RECURSIVE to_float(_)
\* float(c) of a non-empty text of digits.  The value is exact for the texts of
\* the model, which have fewer than 10 digits.
to_float(c) ==
    IF Len(c) = 1 THEN digit_value(c[1])
    ELSE 10 * to_float(SubSeq(c, 1, Len(c) - 1)) + digit_value(c[Len(c)])

\* clean_amount: 0.0 for an empty text and when float() raises ValueError,
\* which it does on the empty text alone.
clean_amount(text) ==
    IF text = <<>> THEN 0
    ELSE LET cleaned == digits_only(text)
         IN  IF cleaned = <<>> THEN 0 ELSE to_float(cleaned)

\* clean_val of clean_and_format_dataframe; every cell of the table is a str.
clean_val(x) ==
    LET c == digits_only(x)
    IN  IF c = <<>> THEN 0 ELSE to_float(c)

\* The missing marker (NaT) of a date column.
NaT == <<>>

\* Texts that the directive %d matches, with their value.
day_value(t) ==
    IF Len(t) = 1 /\ t[1] \in Digits \ {"0"} THEN digit_value(t[1])
    ELSE IF Len(t) = 2 /\ t[1] = " " /\ t[2] \in Digits \ {"0"} THEN digit_value(t[2])
    ELSE IF Len(t) = 2 /\ t[1] \in Digits /\ t[2] \in Digits
            /\ to_float(t) >= 1 /\ to_float(t) <= 31 THEN to_float(t)
    ELSE 0

\* Texts that the directive %m matches, with their value.
month_value(t) ==
    IF Len(t) = 1 /\ t[1] \in Digits \ {"0"} THEN digit_value(t[1])
    ELSE IF Len(t) = 2 /\ t[1] \in Digits /\ t[2] \in Digits
            /\ to_float(t) >= 1 /\ to_float(t) <= 12 THEN to_float(t)
    ELSE 0

\* Texts that the directive %Y matches, with their value.
year_value(t) ==
    IF Len(t) = 4 /\ \A i \in 1..4 : t[i] \in Digits THEN to_float(t) ELSE 0

is_leap(y) == (y % 4 = 0 /\ y % 100 # 0) \/ y % 400 = 0

days_in_month(y, m) ==
    IF m = 2 THEN (IF is_leap(y) THEN 29 ELSE 28)
    ELSE IF m \in {4, 6, 9, 11} THEN 30
    ELSE 31

\* pd.to_datetime(text, format='%d/%m/%Y', errors='coerce').date(): the date
\* <<year, month, day>>, or NaT when the text does not match the format as a
\* whole or names no day of the calendar.  The years of the texts of the model
\* lie in the range that a Timestamp holds at every resolution (1678 to 2261).
parse_date(text) ==
    LET slashes == {i \in 1..Len(text) : text[i] = "/"}
    IN  IF Cardinality(slashes) # 2 THEN NaT
        ELSE LET s1 == CHOOSE i \in slashes : \A j \in slashes : i <= j
                 s2 == CHOOSE i \in slashes : \A j \in slashes : j <= i
                 d  == day_value(SubSeq(text, 1, s1 - 1))
                 m  == month_value(SubSeq(text, s1 + 1, s2 - 1))
                 y  == year_value(SubSeq(text, s2 + 1, Len(text)))
             IN  IF d = 0 \/ m = 0 \/ y = 0 THEN NaT
                 ELSE IF d > days_in_month(y, m) THEN NaT
                 ELSE <<y, m, d>>

\* Order of datetime.date values.
date_less(a, b) ==
    \/ a[1] < b[1]
    \/ (a[1] = b[1] /\ a[2] < b[2])
    \/ (a[1] = b[1] /\ a[2] = b[2] /\ a[3] < b[3])

\* The two loops over the monetary and the date columns, for one row.
normalize_row(r) ==
    [date        |-> parse_date(r.date),
     date_valeur |-> parse_date(r.date_valeur),
     libelle     |-> r.libelle,
     debit       |-> clean_val(r.debit),
     credit      |-> clean_val(r.credit),
     solde       |-> clean_val(r.solde)]

\* The filter on both date columns: a row without date_valeur is lost too.
dropna_any_date(t) == SelectSeq(t, LAMBDA r : r.date # NaT /\ r.date_valeur # NaT)

\* df.dropna(subset=['date'])
dropna_date(t) == SelectSeq(t, LAMBDA r : r.date # NaT)

\* Orders in which sort_values('date') may leave the rows.  It runs pandas'
\* default kind='quicksort', which sorts ascending and promises no order among
\* rows of equal date: each ascending arrangement of the rows is an outcome.
sort_values_date(t) ==
    LET n == Len(t)
        perms == {p \in [1..n -> 1..n] : \A i, j \in 1..n : i # j => p[i] # p[j]}
    IN  {[i \in 1..n |-> t[p[i]]] : p \in
            {q \in perms : \A i \in 1..(n - 1) : ~date_less(t[q[i + 1]].date, t[q[i]].date)}}

\* The tables clean_and_format_dataframe may return for df.
clean_and_format_dataframe(t) ==
    sort_values_date(dropna_date([i \in 1..Len(t) |-> normalize_row(t[i])]))

(***************************************************************************)
(* Input: the words of the pages of a document.                            *)
(***************************************************************************)
t_d1 == <<"1", "2", "/", "0", "3", "/", "2", "0", "2", "5">>
t_d2 == <<"3", "1", "/", "0", "2", "/", "2", "0", "2", "5">>
t_d3 == <<"0", "5", "/", "0", "1", "/", "2", "0", "2", "5">>
t_short == <<"1", "2", "/", "0", "3", "/", "2", "5">>
t_ACHAT == <<"A", "C", "H", "A", "T">>
t_CARTE == <<"C", "A", "R", "T", "E">>
t_VIR == <<"V", "I", "R">>
t_7 == <<"7">>

\* A word of a row before the page gives it its place: position and text.
W(x, t) == [x0 |-> x, text |-> t]

RECURSIVE placed(_)
\* Position and text of each word of a row.
placed(words) ==
    IF words = <<>> THEN <<>>
    ELSE <<W(Head(words).x0, Head(words).text)>> \o placed(Tail(words))

\* The words of the i-th row of a page, as page.get_text("words") lists them.
row_words(r, i) ==
    [j \in 1..Len(r) |->
        [x0 |-> r[j].x0, y0 |-> 10 * i, text |-> r[j].text,
         block_no |-> 0, line_no |-> i - 1]]

RECURSIVE page_words(_, _)
\* The words of a page made of the rows rs[i..], in the order of the collection.
page_words(rs, i) ==
    IF i > Len(rs) THEN <<>>
    ELSE row_words(rs[i], i) \o page_words(rs, i + 1)

\* The pages of at most n rows drawn from a catalogue of rows.
Pages(catalogue, n) ==
    {page_words(rs, 1) : rs \in UNION {[1..k -> catalogue] : k \in 1..n}}

\* Rows of a statement: two transaction starts, a continuation that begins
\* with a malformed date, another that begins with a date on date_limit, a
\* footer line that begins with a date.
Catalogue ==
    { <<W(100, t_ACHAT), W(50, t_d1), W(360, t_7)>>,
      <<W(50, t_d2)>>,
      <<W(50, t_short), W(120, t_VIR)>>,
      <<W(90, t_d1), W(260, t_d3)>>,
      <<W(50, t_d1), W(100, p_Orabank)>> }

(***************************************************************************)
(* State machine of extract_transactions_from_pdf and of the normaliser.   *)
(*   pc = "page":      between two pages of the document                   *)
(*   pc = "line":      inside the loop over the sorted keys of a page      *)
(*   pc = "extracted": extract_transactions_from_pdf has returned df       *)
(*   pc = "cleaned":   clean_and_format_dataframe has returned df_clean    *)
(* line_words and outcome are what the last round of the loop over the     *)
(* rows left: the line after truncation and the place where the round      *)
(* ended.  seen lists the rows handed to the loop so far: the position and *)
(* the text of their words, in sorted order.                               *)
(* The index page_num of enumerate(doc) is read nowhere and is left out;   *)
(* rows is read no more once the keys of its page are exhausted and is     *)
(* then the empty dict again.                                              *)
(***************************************************************************)
\* No caller is modelled: nothing is handed over, kept or counted.
NoCaller ==
    /\ doc = <<>>
    /\ doc_again = <<>>
    /\ df_again = <<>>
    /\ solde_prec = 0
    /\ df_final = <<>>
    /\ pdf_files = <<>>
    /\ success_count = 0
    /\ attempted = <<>>

Init ==
    /\ pc = "page"
    /\ rows = empty_dict
    /\ sorted_keys = <<>>
    /\ current_tx = empty_dict
    /\ transactions = <<>>
    /\ line_words = <<>>
    /\ outcome = "none"
    /\ seen = <<>>
    /\ df = <<>>
    /\ df_clean = <<>>
    /\ amount = <<>>
    /\ NoCaller

\* Rows that the document may still hold.
RowsLeft == MaxLines - Len(seen)

\* The page loop with the accumulator owned by the page: the open transaction
\* is appended and the accumulator emptied when a page begins.
NextPage_flushing(catalogue) ==
    /\ pc = "page"
    /\ \E words \in Pages(catalogue, RowsLeft) :
          /\ rows' = group_rows(words)
          /\ sorted_keys' = sorted_seq(DOMAIN group_rows(words))
    /\ pc' = "line"
    /\ transactions' = flush(transactions, current_tx)
    /\ current_tx' = empty_dict
    /\ UNCHANGED <<line_words, outcome, seen, df, df_clean, amount>>
    /\ UNCHANGED caller_vars

\* for page_num, page in enumerate(doc): the words of the next page, some page
\* of rows of the catalogue, are grouped by key and the keys sorted.
NextPage(catalogue) ==
    /\ pc = "page"
    /\ \E words \in Pages(catalogue, RowsLeft) :
          /\ rows' = group_rows(words)
          /\ sorted_keys' = sorted_seq(DOMAIN group_rows(words))
    /\ pc' = "line"
    /\ UNCHANGED <<current_tx, transactions, line_words, outcome, seen,
                   df, df_clean, amount>>
    /\ UNCHANGED caller_vars

\* One round of `for key in sorted_keys`.
ProcessLine ==
    /\ pc = "line"
    /\ LET key    == Head(sorted_keys)
           sorted == sort_by_x(rows[key])
           lw     == truncate(sorted)
           start  == is_start(lw)
           opened == IF start THEN new_tx ELSE current_tx
       IN  /\ rows' = IF Tail(sorted_keys) = <<>> THEN empty_dict
                      ELSE [rows EXCEPT ![key] = sorted]
           /\ seen' = Append(seen, placed(sorted))
           /\ line_words' = lw
           /\ IF lw = <<>>
              THEN /\ outcome' = "empty"
                   /\ UNCHANGED <<current_tx, transactions>>
              ELSE IF should_skip(full_line_text(lw))
              THEN /\ outcome' = "noise"
                   /\ UNCHANGED <<current_tx, transactions>>
              ELSE /\ transactions' =
                         IF start THEN flush(transactions, current_tx)
                         ELSE transactions
                   /\ IF truthy(opened)
                      THEN /\ current_tx' = distribute(opened, lw)
                           /\ outcome' = IF start THEN "start" ELSE "continuation"
                      ELSE /\ current_tx' = opened
                           /\ outcome' = "discarded"
    /\ sorted_keys' = Tail(sorted_keys)
    /\ pc' = IF Tail(sorted_keys) = <<>> THEN "page" ELSE "line"
    /\ UNCHANGED <<df, df_clean, amount>>
    /\ UNCHANGED caller_vars

\* After the last page: the open transaction is added and the table returned.
ReturnTable ==
    /\ pc = "page"
    /\ transactions' = flush(transactions, current_tx)
    /\ df' = to_dataframe(flush(transactions, current_tx))
    /\ pc' = "extracted"
    /\ UNCHANGED <<rows, sorted_keys, current_tx, line_words,
                   outcome, seen, df_clean, amount>>
    /\ UNCHANGED caller_vars

\* clean_and_format_dataframe(df), which the callers run on a table that is
\* not empty.
CleanAndFormat ==
    /\ pc = "extracted"
    /\ df # <<>>
    /\ df_clean' \in clean_and_format_dataframe(df)
    /\ pc' = "cleaned"
    /\ UNCHANGED <<rows, sorted_keys, current_tx, transactions,
                   line_words, outcome, seen, df, amount>>
    /\ UNCHANGED caller_vars

Next ==
    \/ NextPage(Catalogue)
    \/ ProcessLine
    \/ ReturnTable
    \/ CleanAndFormat

Spec == Init /\ [][Next]_vars

(***************************************************************************)
(* What the statement of the properties needs: the reading of a row by the *)
(* classifier, told from the rows seen.                                    *)
(***************************************************************************)
\* The leftmost word of a line lies left of date_limit and its text is two
\* digits, a slash, two digits, a slash and four digits, and nothing else.
StartCondition(line) ==
    LET w == CHOOSE v \in {line[i] : i \in 1..Len(line)} :
                 \A i \in 1..Len(line) : v.x0 <= line[i].x0
    IN  /\ w.x0 < 90
        /\ Len(w.text) = 10
        /\ \A i \in 1..10 : IF i \in {3, 6} THEN w.text[i] = "/"
                            ELSE w.text[i] \in Digits

\* The row is kept: something is left of it after truncation and it is no noise.
IsKept(r) ==
    LET line == truncate(r)
    IN  line # <<>> /\ ~should_skip(full_line_text(line))

\* The row fires the detection of a transaction start.
StartsTx(r) ==
    LET line == truncate(r)
    IN  /\ line # <<>>
        /\ StartCondition(line)
        /\ ~should_skip(full_line_text(line))

\* The rows seen so far that fire the detection of a transaction start.
StartRows == {i \in 1..Len(seen) : StartsTx(seen[i])}

\* Every field of the accumulator is the empty text.
AllEmpty(tx) == \A k \in tx_keys : tx[k] = <<>>

\* The column that the position x belongs to, by the intervals of the layout.
InColumn(col, x) ==
    CASE col = "Date"        -> x < 90
      [] col = "Libellé"     -> 90 <= x /\ x < 260
      [] col = "Date Valeur" -> 260 <= x /\ x < 350
      [] col = "Débit"       -> 350 <= x /\ x < 430
      [] col = "Crédit"      -> 430 <= x /\ x < 515
      [] col = "Solde"       -> 515 <= x

RECURSIVE Collected(_, _)
\* What the words of a line bring to a column, from left to right: their texts,
\* each followed by one space in the column Libellé.
Collected(col, line) ==
    IF line = <<>> THEN <<>>
    ELSE (IF InColumn(col, Head(line).x0)
          THEN Head(line).text \o (IF col = "Libellé" THEN <<" ">> ELSE <<>>)
          ELSE <<>>) \o Collected(col, Tail(line))

Scanning == pc \in {"page", "line"}
Returned == pc \in {"extracted", "cleaned"}

(***************************************************************************)
(* C1: the number of transaction records returned equals the number of     *)
(* lines that fire the detection of a transaction start, minus those whose *)
(* accumulator ends up with all six fields empty; while the scan runs, the *)
(* records appended and the open accumulator together count the starts.    *)
(***************************************************************************)
C1_RecordCount ==
    LET emitted_empty == {i \in 1..Len(transactions) : AllEmpty(transactions[i])}
        starts == Cardinality(StartRows)
    IN  IF Returned
        THEN /\ Len(transactions) = starts - Cardinality(emitted_empty)
             /\ Len(df) = Len(transactions)
        ELSE Len(transactions) + (IF truthy(current_tx) THEN 1 ELSE 0) = starts

\* Four rows were read, two of them started the two records returned.
C1_Witness ==
    /\ pc = "extracted"
    /\ Len(seen) = 4
    /\ Cardinality(StartRows) = 2
    /\ Len(df) = 2
    /\ \E i \in 1..4 : ~IsKept(seen[i])

(***************************************************************************)
(* C2: at most one accumulator is open, and no record whose six fields are *)
(* all empty text is in the output collection; the accumulator that a      *)
(* flush appends has at least one non-empty field.                         *)
(***************************************************************************)
C2_NoEmptyRecord ==
    LET open == Cardinality(StartRows) - Len(transactions)
    IN  /\ DOMAIN current_tx \in {{}, tx_keys}
        /\ Scanning => open \in {0, 1} /\ (truthy(current_tx) <=> open = 1)
        /\ truthy(current_tx) => ~AllEmpty(current_tx)
        /\ \A i \in 1..Len(transactions) :
              DOMAIN transactions[i] = tx_keys /\ ~AllEmpty(transactions[i])

\* A record that a start line with a date and nothing else opened was flushed
\* at the end of the stream: its date is its one non-empty field.
C2_Witness ==
    /\ pc = "extracted"
    /\ \E i \in 1..Len(transactions) :
          /\ transactions[i]["Date"] # <<>>
          /\ \A k \in tx_keys \ {"Date"} : transactions[i][k] = <<>>

(***************************************************************************)
(* C6: a kept line starts a new transaction if and only if its leftmost    *)
(* word lies left of date_limit and is exactly DD/MM/YYYY; any other kept  *)
(* line opens and flushes nothing and, when a transaction is open, its     *)
(* words are continuation text of that transaction.                        *)
(***************************************************************************)
C6_StartDetection ==
    [][ (pc = "line" /\ outcome' \in {"start", "continuation", "discarded"}) =>
          IF StartCondition(line_words')
          THEN /\ outcome' = "start"
               /\ Len(transactions') =
                     Len(transactions) + (IF truthy(current_tx) THEN 1 ELSE 0)
               /\ current_tx'["Date"] = line_words'[1].text
          ELSE /\ outcome' # "start"
               /\ transactions' = transactions
               /\ IF truthy(current_tx)
                  THEN /\ outcome' = "continuation"
                       /\ current_tx'["Date"] = current_tx["Date"]
                       /\ \A col \in tx_keys \ {"Date"} :
                             current_tx'[col] =
                                current_tx[col] \o Collected(col, line_words')
                  ELSE /\ outcome' = "discarded"
                       /\ current_tx' = current_tx ]_vars

\* A line that begins with a date of a two-digit year, left of date_limit, was
\* taken as a continuation of the open transaction.
C6_Witness ==
    /\ outcome = "continuation"
    /\ line_words # <<>>
    /\ line_words[1].x0 < date_limit
    /\ Len(line_words[1].text) = 8
    /\ truthy(current_tx)
    /\ Contains(Collected("Libellé", line_words), current_tx["Libellé"])

(***************************************************************************)
(* C7: the Libellé of every emitted transaction is the concatenation, in   *)
(* the order of processing, of text and one space for every word with      *)
(* 90 <= x < 260 of its start line and of the continuation lines up to the *)
(* next start; a continuation line goes to the transaction started last.   *)
(* Two start lines, each followed by one continuation line, give two rows, *)
(* each with its own continuation text.                                    *)
(***************************************************************************)
RECURSIVE LibelleOfRows(_, _)
\* The Libellé of each transaction started among the rows seen from i on, after
\* those of acc.
LibelleOfRows(i, acc) ==
    IF i > Len(seen) THEN acc
    ELSE LET line == truncate(seen[i])
         IN  IF ~IsKept(seen[i]) THEN LibelleOfRows(i + 1, acc)
             ELSE IF StartCondition(line)
             THEN LibelleOfRows(i + 1, Append(acc, Collected("Libellé", line)))
             ELSE IF acc = <<>> THEN LibelleOfRows(i + 1, acc)
             ELSE LibelleOfRows(i + 1,
                      [acc EXCEPT ![Len(acc)] = @ \o Collected("Libellé", line)])

\* Start, continuation, start, continuation: four kept rows.
TwoByTwo ==
    /\ Len(seen) = 4
    /\ \A i \in 1..4 : IsKept(seen[i])
    /\ \A i \in {1, 3} : StartsTx(seen[i])
    /\ \A i \in {2, 4} : ~StartsTx(seen[i]) /\ Collected("Libellé", seen[i]) # <<>>

\* A text of words and single spaces without the space that ends it.
WithoutLastSpace(t) == IF t = <<>> THEN <<>> ELSE SubSeq(t, 1, Len(t) - 1)

C7_Libelle ==
    LET expected == LibelleOfRows(1, <<>>)
    IN  /\ \A n \in 1..Len(transactions) :
              transactions[n]["Libellé"] = expected[n]
        /\ Returned =>
              /\ \A n \in 1..Len(df) : df[n].libelle = WithoutLastSpace(expected[n])
              /\ TwoByTwo =>
                    /\ Len(df) = 2
                    /\ Contains(WithoutLastSpace(Collected("Libellé", seen[2])), df[1].libelle)
                    /\ Contains(WithoutLastSpace(Collected("Libellé", seen[4])), df[2].libelle)
                    /\ df[1].libelle = WithoutLastSpace(
                          Collected("Libellé", seen[1]) \o Collected("Libellé", seen[2]))
                    /\ df[2].libelle = WithoutLastSpace(
                          Collected("Libellé", seen[3]) \o Collected("Libellé", seen[4]))

\* The scenario of two starts with one continuation each, with different
\* continuation texts, has returned its two rows.
C7_Witness ==
    /\ pc = "extracted"
    /\ TwoByTwo
    /\ Len(df) = 2
    /\ seen[2] # seen[4]
    /\ df[1].libelle # df[2].libelle

(***************************************************************************)
(* Statements with merged totals.                                          *)
(***************************************************************************)
t_Total == <<"T", "o", "t", "a", "l">>
t_general == <<"g", "é", "n", "é", "r", "a", "l">>
t_SoldeColon == <<"S", "o", "l", "d", "e", ":">>
t_50000 == <<"5", "0", "0", "0", "0">>
t_TOTAL == <<"T", "O", "T", "A", "L">>
t_DES == <<"D", "E", "S">>
t_MOUVEMENTS == <<"M", "O", "U", "V", "E", "M", "E", "N", "T", "S">>
t_Totalement == <<"T", "o", "t", "a", "l", "e", "m", "e", "n", "t">>
t_SousTotal == <<"S", "o", "u", "s", "-", "t", "o", "t", "a", "l">>
t_Deb == <<"D", "e", "b">>

\* Rows of a statement whose totals are merged into transaction lines: a
\* transaction followed by "Total général" and a balance, a line that is
\* "Sous-total Deb" from its first word on, a continuation followed by "TOTAL
\* DES MOUVEMENTS", and a transaction with a word that holds "total" without
\* its context.
TotalCatalogue ==
    { <<W(50, t_d1), W(100, t_ACHAT), W(360, t_Total), W(400, t_general),
        W(450, t_SoldeColon), W(520, t_50000)>>,
      <<W(150, t_Deb), W(100, t_SousTotal)>>,
      <<W(100, t_CARTE), W(150, t_TOTAL), W(200, t_DES), W(250, t_MOUVEMENTS)>>,
      <<W(50, t_d3), W(100, t_Totalement), W(360, t_7)>> }

NextTotal ==
    \/ NextPage(TotalCatalogue)
    \/ ProcessLine
    \/ ReturnTable
    \/ CleanAndFormat

SpecTotal == Init /\ [][NextTotal]_vars

(***************************************************************************)
(* C3: when a word of a line fires the truncation, the line handed to the  *)
(* noise filter and to the column assignment is made of the words strictly *)
(* before the first word that fires, from left to right, and no word from  *)
(* that word on reaches a field; when no word is left the line is skipped  *)
(* and the open accumulator and the output are unchanged.  The line        *)
(* 12/03/2025 ACHAT Total général Solde: 50000 is processed as             *)
(* 12/03/2025 ACHAT.                                                       *)
(***************************************************************************)
\* The words of the row that fire the truncation.
FiringWords(row) == {i \in 1..Len(row) : triggers(row, i)}

\* The words of the row strictly before the first one that fires.
BeforeTotal(row) ==
    LET first == CHOOSE i \in FiringWords(row) : \A j \in FiringWords(row) : i <= j
    IN  [k \in 1..(first - 1) |-> row[k]]

\* The line of the example.
TotalExample ==
    <<t_d1, t_ACHAT, t_Total, t_general, t_SoldeColon, t_50000>>

C3_Truncation ==
    [][ (pc = "line" /\ FiringWords(seen'[Len(seen')]) # {}) =>
          LET row  == seen'[Len(seen')]
              kept == BeforeTotal(row)
          IN  /\ placed(line_words') = kept
              /\ kept = <<>> =>
                    /\ outcome' = "empty"
                    /\ current_tx' = current_tx
                    /\ transactions' = transactions
              /\ outcome' \in {"noise", "discarded"} =>
                    current_tx' = current_tx /\ transactions' = transactions
              /\ outcome' \in {"start", "continuation"} =>
                    \A col \in tx_keys \ {"Date"} :
                       current_tx'[col] =
                          (IF outcome' = "start" THEN <<>> ELSE current_tx[col])
                             \o Collected(col, kept)
              /\ outcome' = "start" => current_tx'["Date"] = kept[1].text
              /\ outcome' = "continuation" =>
                    current_tx'["Date"] = current_tx["Date"]
              /\ texts_of(row) = TotalExample =>
                    /\ texts_of(line_words') = <<t_d1, t_ACHAT>>
                    /\ outcome' = "start"
                    /\ current_tx' = [new_tx EXCEPT !["Date"] = t_d1,
                                         !["Libellé"] = t_ACHAT \o <<" ">>] ]_vars

\* The line of the example has been cut to its date and its description, the
\* total and the balance behind it have reached no field.
C3_Witness ==
    /\ outcome = "start"
    /\ texts_of(seen[Len(seen)]) = TotalExample
    /\ texts_of(line_words) = <<t_d1, t_ACHAT>>
    /\ current_tx["Débit"] = <<>>
    /\ current_tx["Solde"] = <<>>

\* A line that was a total from its first word on has been skipped while a
\* transaction was open.
C3_WitnessEmpty ==
    /\ outcome = "empty"
    /\ seen # <<>>
    /\ FiringWords(seen[Len(seen)]) # {}
    /\ truthy(current_tx)

(***************************************************************************)
(* Statements with table headers.                                          *)
(***************************************************************************)
\* Rows of a statement with headers: a header behind a date, a header whose
\* words come in the other order, a line with the two header words on the two
\* sides of a merged total, and a transaction whose description is the word
\* Date.
HeaderCatalogue ==
    { <<W(50, t_d1), W(100, p_Date), W(150, p_Libelle)>>,
      <<W(300, p_Date), W(100, p_Libelle)>>,
      <<W(50, t_d1), W(100, p_Date), W(360, t_Total), W(400, t_general),
        W(450, p_Libelle)>>,
      <<W(50, t_d3), W(100, p_Date)>> }

NextHeader ==
    \/ NextPage(HeaderCatalogue)
    \/ ProcessLine
    \/ ReturnTable
    \/ CleanAndFormat

SpecHeader == Init /\ [][NextHeader]_vars

\* The text of the words of a row joined by single spaces.
JoinedText(row) == join(<<" ">>, texts_of(row))

\* The text holds both words of the table header.
HasHeaderWords(text) == Contains(p_Date, text) /\ Contains(p_Libelle, text)

\* The row as the truncation of merged totals leaves it.
AfterTruncation(row) == IF FiringWords(row) = {} THEN row ELSE BeforeTotal(row)

(***************************************************************************)
(* C4 as stated: any line whose joined word text contains both "Date" and  *)
(* "Libellé" is noise, whatever else is on the line: it starts no          *)
(* transaction and none of its words reaches a field.                      *)
(***************************************************************************)
C4_Original ==
    [][ (pc = "line" /\ HasHeaderWords(JoinedText(seen'[Len(seen')]))) =>
          /\ outcome' \in {"noise", "empty"}
          /\ current_tx' = current_tx
          /\ transactions' = transactions ]_vars

(***************************************************************************)
(* C4, amended: any line whose joined word text, after the truncation of a *)
(* merged total, contains both "Date" and "Libellé" is noise, whatever the *)
(* positions of its words and whatever else is left on it: it starts no    *)
(* transaction and none of its words reaches a field.                      *)
(***************************************************************************)
C4_Header ==
    [][ (pc = "line"
           /\ LET text == JoinedText(AfterTruncation(seen'[Len(seen')]))
              IN  Contains(p_Libelle, text) /\ Contains(p_Date, text)) =>
          /\ outcome' = "noise"
          /\ current_tx' = current_tx
          /\ transactions' = transactions ]_vars

\* A header line that begins with a date left of date_limit has been skipped
\* while a transaction was open.
C4_Witness ==
    /\ outcome = "noise"
    /\ HasHeaderWords(JoinedText(line_words))
    /\ StartCondition(line_words)
    /\ truthy(current_tx)
    /\ seen[Len(seen)] = placed(line_words)

(***************************************************************************)
(* Statements with words on and next to the column thresholds.             *)
(***************************************************************************)

\* A transaction with a word on each threshold, a continuation with a word one
\* unit left of each threshold, a word far right, and a transaction with a
\* second word left of date_limit.
ColumnCatalogue ==
    { <<W(50, t_d1), W(90, <<"A">>), W(260, <<"B">>), W(350, <<"C">>), W(430, <<"D">>),
        W(515, <<"E">>)>>,
      <<W(89, <<"F">>), W(259, <<"G">>), W(349, <<"H">>), W(429, <<"I">>), W(514, <<"J">>)>>,
      <<W(600, <<"K">>)>>,
      <<W(50, t_d3), W(89, t_d1)>> }

NextColumn ==
    \/ NextPage(ColumnCatalogue)
    \/ ProcessLine
    \/ ReturnTable
    \/ CleanAndFormat

SpecColumn == Init /\ [][NextColumn]_vars

\* The columns whose interval holds the position x.
ColumnsAt(x) == {col \in tx_keys : InColumn(col, x)}

\* The line of the last round was kept and its words were distributed.
Distributed(o) == o \in {"start", "continuation"}

(***************************************************************************)
(* C5 as stated: for every word of a kept line exactly one of the six      *)
(* columns receives its text, the one whose interval holds its x: x < 90   *)
(* Date, 90 <= x < 260 Libellé, 260 <= x < 350 Date Valeur, 350 <= x < 430 *)
(* Débit, 430 <= x < 515 Crédit, 515 <= x Solde.                           *)
(***************************************************************************)
C5_Original ==
    [][ (pc = "line" /\ Distributed(outcome')) =>
          /\ \A i \in 1..Len(line_words') :
                Cardinality(ColumnsAt(line_words'[i].x0)) = 1
          /\ \A col \in tx_keys :
                current_tx'[col] =
                   (IF outcome' = "start" THEN <<>> ELSE current_tx[col])
                      \o Collected(col, line_words') ]_vars

(***************************************************************************)
(* C5, amended: for every word of a kept line exactly one of the six       *)
(* columns is selected, the one whose interval holds its x (a word on a    *)
(* threshold goes to the column on the right of it), and that column       *)
(* receives its text, except that the column Date keeps the first text it  *)
(* is given in a transaction: a word with x < 90 that comes once the Date   *)
(* is set reaches no column.                                               *)
(***************************************************************************)
C5_Columns ==
    [][ (pc = "line" /\ Distributed(outcome')) =>
          LET before == IF outcome' = "start" THEN new_tx ELSE current_tx
              dates  == SelectSeq(line_words', LAMBDA w : w.x0 < 90)
          IN  /\ \A i \in 1..Len(line_words') :
                    Cardinality(ColumnsAt(line_words'[i].x0)) = 1
              /\ \A col \in tx_keys \ {"Date"} :
                    current_tx'[col] = before[col] \o Collected(col, line_words')
              /\ current_tx'["Date"] =
                    IF before["Date"] # <<>> \/ dates = <<>> THEN before["Date"]
                    ELSE dates[1].text ]_vars

\* A transaction whose start line had a word on each of the five thresholds:
\* each went to the column on the right of its threshold.
C5_Witness ==
    /\ outcome = "start"
    /\ {line_words[i].x0 : i \in 1..Len(line_words)} = {50, 90, 260, 350, 430, 515}
    /\ current_tx = [new_tx EXCEPT !["Date"] = t_d1,
                        !["Libellé"] = <<"A", " ">>,
                        !["Date Valeur"] = <<"B">>,
                        !["Débit"] = <<"C">>,
                        !["Crédit"] = <<"D">>,
                        !["Solde"] = <<"E">>]

(***************************************************************************)
(* The amount normaliser on its own: clean_amount and                      *)
(* clean_and_format_dataframe applied to a table of one row whose debit is *)
(* any text of a few characters.                                           *)
(***************************************************************************)
MaxAmountLen == 3

AmountChars == {"7", "0", " ", ",", "x"}

t_767_000 == <<"7", "6", "7", " ", "0", "0", "0">>
t_12_345_67 == <<"1", "2", ".", "3", "4", "5", ",", "6", "7">>

\* The texts of at most MaxAmountLen characters, the empty text among them.
AmountTexts == UNION {[1..n -> AmountChars] : n \in 0..MaxAmountLen}

\* A row of the extracted table with the given amounts.
amount_row(debit, credit, solde) ==
    [date |-> t_d1, date_valeur |-> <<>>, libelle |-> t_ACHAT,
     debit |-> debit, credit |-> credit, solde |-> solde]

InitAmount ==
    /\ pc = "extracted"
    /\ rows = empty_dict
    /\ sorted_keys = <<>>
    /\ current_tx = empty_dict
    /\ transactions = <<>>
    /\ line_words = <<>>
    /\ outcome = "none"
    /\ seen = <<>>
    /\ \E debit \in AmountTexts : df = <<amount_row(debit, t_767_000, t_12_345_67)>>
    /\ df_clean = <<>>
    /\ amount = <<>>
    /\ NoCaller

\* clean_amount(text) on a cell of a monetary column of the table: amount
\* holds the text and the value returned.
CallCleanAmount ==
    /\ pc \in {"extracted", "cleaned"}
    /\ \E n \in 1..Len(df) : \E col \in {"debit", "credit", "solde"} :
          amount' = <<df[n][col], clean_amount(df[n][col])>>
    /\ UNCHANGED <<pc, rows, sorted_keys, current_tx, transactions,
                   line_words, outcome, seen, df, df_clean>>
    /\ UNCHANGED caller_vars

NextAmount ==
    \/ CleanAndFormat
    \/ CallCleanAmount

SpecAmount == InitAmount /\ [][NextAmount]_vars

RECURSIVE DigitsValue(_)
\* The integer that the digit characters of a text form in their order, the
\* other characters dropped; 0 for a text without digit.
DigitsValue(text) ==
    IF text = <<>> THEN 0
    ELSE LET front == SubSeq(text, 1, Len(text) - 1)
             ch    == text[Len(text)]
             ds    == {d \in 0..9 : ToString(d) = ch}
         IN  IF ds = {} THEN DigitsValue(front)
             ELSE 10 * DigitsValue(front) + (CHOOSE d \in ds : TRUE)

MaxRows == 3

t_leap == <<"2", "9", "/", "0", "2", "/", "2", "0", "2", "4">>
t_d4 == <<"1", "/", "3", "/", "2", "0", "2", "5">>

\* Date texts: three days of the calendar, the 31st of February, and a day
\* written without leading zeros.
DateTexts == {t_d1, t_d2, t_d3, t_leap, t_d4}

\* Date Valeur texts: a day of the calendar, and a text that is no date.
ValeurTexts == {t_d3, t_short}

\* The description of the i-th row of a table names its place.
RowTag(i) == <<ToString(i)>>

\* The tables of n rows that the extraction may hand over.
Tables(n) ==
    {[i \in 1..n |->
        [date |-> ds[i], date_valeur |-> vs[i], libelle |-> RowTag(i),
         debit |-> t_7, credit |-> <<>>, solde |-> t_50000]] :
       ds \in [1..n -> DateTexts], vs \in [1..n -> ValeurTexts]}

InitDate ==
    /\ pc = "extracted"
    /\ rows = empty_dict
    /\ sorted_keys = <<>>
    /\ current_tx = empty_dict
    /\ transactions = <<>>
    /\ line_words = <<>>
    /\ outcome = "none"
    /\ seen = <<>>
    /\ df \in UNION {Tables(n) : n \in 1..MaxRows}
    /\ df_clean = <<>>
    /\ amount = <<>>
    /\ NoCaller

NextDate == CleanAndFormat

SpecDate == InitDate /\ [][NextDate]_vars

\* The number that a text of one or two digits writes, 0 for another text.
SmallNumber(t) ==
    LET ns == {n \in 1..31 : t = <<ToString(n)>>
                             \/ (n < 10 /\ t = <<"0", ToString(n)>>)
                             \/ (n >= 10 /\ t = <<ToString(n \div 10), ToString(n % 10)>>)}
    IN  IF ns = {} THEN 0 ELSE CHOOSE n \in ns : TRUE

\* The year, month and day that a text day/month/year writes, the year in four
\* digits; <<0, 0, 0>> for a text of another form.
DateParts(text) ==
    LET slashes == {k \in 1..Len(text) : text[k] = "/"}
    IN  IF Cardinality(slashes) # 2 THEN <<0, 0, 0>>
        ELSE LET i == CHOOSE k \in slashes : \E l \in slashes : k < l
                 j == CHOOSE k \in slashes : \E l \in slashes : l < k
                 year == SubSeq(text, j + 1, Len(text))
             IN  IF Len(year) # 4 \/ \E k \in 1..4 : year[k] \notin Digits
                 THEN <<0, 0, 0>>
                 ELSE <<DigitsValue(year),
                        SmallNumber(SubSeq(text, i + 1, j - 1)),
                        SmallNumber(SubSeq(text, 1, i - 1))>>

\* The text is day/month/year with a year of four digits and names a day of
\* the calendar.
ValidDate(text) ==
    LET y == DateParts(text)[1]
        m == DateParts(text)[2]
        d == DateParts(text)[3]
        leap == y % 400 = 0 \/ (y % 4 = 0 /\ y % 100 # 0)
    IN  /\ y >= 1
        /\ m \in 1..12
        /\ d >= 1
        /\ d <= (IF m \in {1, 3, 5, 7, 8, 10, 12} THEN 31
                 ELSE IF m # 2 THEN 30
                 ELSE IF leap THEN 29 ELSE 28)

\* The place in the input table of the n-th row of the output.
InputPlace(n) == CHOOSE i \in 1..Len(df) : RowTag(i) = df_clean[n].libelle

(***************************************************************************)
(* C9: after clean_and_format_dataframe the output holds exactly the input *)
(* rows whose date text is a valid calendar date in day/month/year form    *)
(* with a year of four digits: a row whose date fails the parse, such as   *)
(* 31/02/2025, is dropped though its other fields parsed; a row with a     *)
(* valid date and a date_valeur that does not parse is kept, its           *)
(* date_valeur being the missing marker, not zero.                         *)
(***************************************************************************)
C9_ValidDatesKept ==
    pc = "cleaned" =>
       /\ Len(df_clean) = Cardinality({i \in 1..Len(df) : ValidDate(df[i].date)})
       /\ {df_clean[n].libelle : n \in 1..Len(df_clean)} =
             {RowTag(i) : i \in {k \in 1..Len(df) : ValidDate(df[k].date)}}
       /\ \A n \in 1..Len(df_clean) :
             LET i == InputPlace(n)
             IN  /\ df_clean[n].date # NaT
                 /\ df_clean[n].date = DateParts(df[i].date)
                 /\ df_clean[n].date_valeur =
                       IF ValidDate(df[i].date_valeur)
                       THEN DateParts(df[i].date_valeur) ELSE NaT
                 /\ df_clean[n].debit = 7
                 /\ df_clean[n].credit = 0
                 /\ df_clean[n].solde = 50000
       /\ \A i \in 1..Len(df) :
             df[i].date = t_d2 =>
                \A n \in 1..Len(df_clean) : df_clean[n].libelle # RowTag(i)

\* Of three rows, the one dated 31/02/2025 has been dropped, and one with a
\* valid date and a date_valeur that is no date is there with the marker.
C9_Witness ==
    /\ pc = "cleaned"
    /\ Len(df) = 3
    /\ Len(df_clean) = 2
    /\ \E i \in 1..3 : df[i].date = t_d2 /\ df[i].date_valeur = t_d3
    /\ \E n \in 1..2 :
          /\ df[InputPlace(n)].date_valeur = t_short
          /\ df_clean[n].date_valeur = NaT

(***************************************************************************)
(* C10: the rows returned by clean_and_format_dataframe are in ascending   *)
(* order of date, and two rows of equal date are in the order they had in  *)
(* the extraction output.                                                  *)
(***************************************************************************)
C10_SortedStable ==
    pc = "cleaned" =>
       \A a, b \in 1..Len(df_clean) :
          a < b =>
             /\ ~date_less(df_clean[b].date, df_clean[a].date)
             /\ df_clean[a].date = df_clean[b].date => InputPlace(a) < InputPlace(b)

(***************************************************************************)
(* extract_transactions_from_pdf as a function of the document, a sequence *)
(* of pages, each the sequence of words that page.get_text("words") lists. *)
(***************************************************************************)
\* One round of `for key in sorted_keys` on st = <<current_tx, transactions>>
\* for the words of one key.
line_step(st, row) ==
    LET lw     == truncate(sort_by_x(row))
        start  == is_start(lw)
        opened == IF start THEN new_tx ELSE st[1]
    IN  IF lw = <<>> THEN st
        ELSE IF should_skip(full_line_text(lw)) THEN st
        ELSE << IF truthy(opened) THEN distribute(opened, lw) ELSE opened,
                IF start THEN flush(st[2], st[1]) ELSE st[2] >>

RECURSIVE scan_keys(_, _, _)
\* for key in sorted_keys: ...
scan_keys(st, grouped, keys) ==
    IF keys = <<>> THEN st
    ELSE scan_keys(line_step(st, grouped[Head(keys)]), grouped, Tail(keys))

RECURSIVE scan_pages(_, _)
\* for page_num, page in enumerate(doc): ...
scan_pages(st, pages) ==
    IF pages = <<>> THEN st
    ELSE LET grouped == group_rows(Head(pages))
         IN  scan_pages(scan_keys(st, grouped, sorted_seq(DOMAIN grouped)),
                        Tail(pages))

\* The table returned for the document.
extract_transactions_from_pdf(pages) ==
    LET st == scan_pages(<<empty_dict, <<>>>>, pages)
    IN  to_dataframe(flush(st[2], st[1]))

\* df = extract_transactions_from_pdf(pdf_path) in a caller.
ExtractDocument ==
    /\ pc = "document"
    /\ df' = extract_transactions_from_pdf(doc)
    /\ pc' = "extracted"
    /\ UNCHANGED scan_vars
    /\ UNCHANGED <<df_clean, amount>>
    /\ UNCHANGED caller_vars

\* The same call on the document handed over a second time.
ExtractAgain ==
    /\ pc = "extracted"
    /\ doc_again # <<>>
    /\ df_again' = extract_transactions_from_pdf(doc_again)
    /\ pc' = "again"
    /\ UNCHANGED scan_vars
    /\ UNCHANGED <<df, df_clean, amount>>
    /\ UNCHANGED <<doc, doc_again, solde_prec, df_final,
                   pdf_files, success_count, attempted>>

(***************************************************************************)
(* One page read twice, its words listed in two orders.                    *)
(***************************************************************************)
\* The orders in which a collection of words may be listed.
Orders(words) ==
    LET n == Len(words)
    IN  {[i \in 1..n |-> words[p[i]]] :
            p \in {q \in [1..n -> 1..n] : \A i, j \in 1..n : i # j => q[i] # q[j]}}

\* A transaction with two words of its description at the same horizontal
\* position, and a continuation whose words lie apart.
OrderCatalogue ==
    { <<W(50, t_d1), W(100, <<"A">>), W(100, <<"B">>)>>,
      <<W(120, t_VIR), W(100, t_CARTE)>> }

InitOrder ==
    /\ pc = "document"
    /\ rows = empty_dict
    /\ sorted_keys = <<>>
    /\ current_tx = empty_dict
    /\ transactions = <<>>
    /\ line_words = <<>>
    /\ outcome = "none"
    /\ seen = <<>>
    /\ df = <<>>
    /\ df_clean = <<>>
    /\ amount = <<>>
    /\ \E page \in Pages(OrderCatalogue, 2) : \E again \in Orders(page) :
          doc = <<page>> /\ doc_again = <<again>>
    /\ df_again = <<>>
    /\ solde_prec = 0
    /\ df_final = <<>>
    /\ pdf_files = <<>>
    /\ success_count = 0
    /\ attempted = <<>>

NextOrder ==
    \/ ExtractDocument
    \/ ExtractAgain

SpecOrder == InitOrder /\ [][NextOrder]_vars

(***************************************************************************)
(* C11: the extraction does not depend on the order in which the words of  *)
(* a page are listed: the same set of positioned words, listed in any two  *)
(* orders, words of one line at the same horizontal position included,     *)
(* gives identical transaction records.                                    *)
(***************************************************************************)
C11_OrderIndependent ==
    pc = "again" =>
       /\ {doc[1][i] : i \in 1..Len(doc[1])} =
             {doc_again[1][i] : i \in 1..Len(doc_again[1])}
       /\ df_again = df

(***************************************************************************)
(* Documents of several pages, read one after the other.                   *)
(***************************************************************************)
\* A call of extract_transactions_from_pdf for a new document, once the call
\* before has returned: the locals are new, df is the table of the call under
\* way, empty until it returns.
OpenDocument ==
    /\ pc \in {"extracted", "cleaned"}
    /\ pc' = "page"
    /\ rows' = empty_dict
    /\ sorted_keys' = <<>>
    /\ current_tx' = empty_dict
    /\ transactions' = <<>>
    /\ line_words' = <<>>
    /\ outcome' = "none"
    /\ seen' = <<>>
    /\ df' = <<>>
    /\ df_clean' = <<>>
    /\ UNCHANGED amount
    /\ UNCHANGED caller_vars

NextPages ==
    \/ NextPage(Catalogue)
    \/ ProcessLine
    \/ ReturnTable
    \/ CleanAndFormat
    \/ OpenDocument

SpecPages == Init /\ [][NextPages]_vars

\* The rows of the page under way that have been processed (pc = "line").
OnPage == Cardinality(DOMAIN rows) - Len(sorted_keys)

\* No processed row of the page under way started a transaction.
NoStartOnPage ==
    \A i \in (Len(seen) - OnPage + 1)..Len(seen) : ~StartsTx(seen[i])

(***************************************************************************)
(* C12: the open transaction is neither flushed nor reset where a page     *)
(* ends: the kept lines at the top of the next page, before its first      *)
(* start, go to the transaction left open, which is emitted once, at the   *)
(* next start line or at the end of the document; the accumulator and the  *)
(* output are at any time those of the same rows read as a single page.    *)
(* A call for a new document begins with no open transaction and an empty  *)
(* output.                                                                 *)
(***************************************************************************)
C12_PageBoundary ==
    [][ /\ (pc = "page" /\ pc' = "line") =>
              current_tx' = current_tx /\ transactions' = transactions
        /\ (pc = "line" /\ NoStartOnPage /\ truthy(current_tx)
              /\ IsKept(seen'[Len(seen')]) /\ ~StartsTx(seen'[Len(seen')])) =>
              /\ outcome' = "continuation"
              /\ transactions' = transactions
              /\ current_tx'["Date"] = current_tx["Date"]
              /\ \A col \in tx_keys \ {"Date"} :
                    current_tx'[col] =
                       current_tx[col] \o Collected(col, line_words')
        /\ (pc \in {"page", "line"} /\ transactions' # transactions) =>
              /\ truthy(current_tx)
              /\ transactions' = Append(transactions, current_tx)
              /\ (pc = "line" /\ outcome' = "start") \/ pc' = "extracted"
        /\ pc' \in {"page", "line"} =>
              <<current_tx', transactions'>> =
                 scan_pages(<<empty_dict, <<>>>>,
                            IF seen' = <<>> THEN <<>> ELSE <<page_words(seen', 1)>>)
        /\ (pc \in {"extracted", "cleaned"} /\ pc' = "page") =>
              current_tx' = empty_dict /\ transactions' = <<>> ]_vars

\* The first line of a page has been added to the transaction that the last
\* line of the page before had started.
C12_Witness ==
    /\ pc = "line"
    /\ OnPage = 1
    /\ outcome = "continuation"
    /\ Len(seen) >= 2
    /\ StartsTx(seen[Len(seen) - 1])
    /\ Collected("Libellé", seen[Len(seen)]) # <<>>
    /\ current_tx["Libellé"] =
          Collected("Libellé", seen[Len(seen) - 1])
             \o Collected("Libellé", seen[Len(seen)])

(***************************************************************************)
(* get_solde_precedent: the preceding balance read on the first page.      *)
(***************************************************************************)
MaxWords == 3

p_precedent == <<"p", "r", "é", "c", "é", "d", "e", "n", "t">>

y_margin == 5
x_min_amount == 300

\* re.match(r'^[\d.,]+$', text)
numeric_word(text) ==
    text # <<>> /\ \A i \in 1..Len(text) : text[i] \in Digits \cup {".", ","}

\* abs(w[1] - solde_label_y) < 5
on_label_line(w, y) ==
    (IF w.y0 >= y THEN w.y0 - y ELSE y - w.y0) < y_margin

\* solde_label_y after the first loop: y0 of the first word of the list that
\* holds "précédent", -1 when there is none.
solde_label_y(words) ==
    LET found == {i \in 1..Len(words) : Contains(p_precedent, words[i].text)}
    IN  IF found = {} THEN -1
        ELSE words[CHOOSE i \in found : \A j \in found : i <= j].y0

\* The value returned for the document: 0.0 when an exception is caught (a
\* document without page, a text without digit) and where the function falls
\* through.
get_solde_precedent(pages) ==
    IF pages = <<>> THEN 0
    ELSE LET words == pages[1]
             y     == solde_label_y(words)
             montant_parts ==
                 SelectSeq(words, LAMBDA w : /\ on_label_line(w, y)
                                            /\ w.x0 > x_min_amount
                                            /\ numeric_word(w.text))
             full_str == join(<<>>, texts_of(montant_parts))
             cleaned  == remove_char(remove_char(full_str, "."), ",")
         IN  IF y = -1 \/ montant_parts = <<>> \/ cleaned = <<>> THEN 0
             ELSE to_float(cleaned)

\* solde_prec = get_solde_precedent(pdf_path) in a caller.
GetSoldePrecedent ==
    /\ pc = "document"
    /\ solde_prec' = get_solde_precedent(doc)
    /\ pc' = "balance"
    /\ UNCHANGED scan_vars
    /\ UNCHANGED <<df, df_clean, amount>>
    /\ UNCHANGED <<doc, doc_again, df_again, df_final,
                   pdf_files, success_count, attempted>>

\* A word of a first page: position, line and text.
P(x, y, t) == [x0 |-> x, y0 |-> y, text |-> t, block_no |-> 0, line_no |-> 0]

\* Words around a balance label: the label left of the amounts and a label
\* right of 300; amounts on the line of the first label, right of 300 and
\* between the label and 300; an amount 5 units lower; an amount left of the
\* second label; a currency.
SoldeWords ==
    { P(216, 100, p_precedent),
      P(400, 200, p_precedent \o <<":">>),
      P(520, 102, <<"1", ".", "2">>),
      P(560, 96, <<"3", "4">>),
      P(250, 100, <<"9">>),
      P(350, 200, <<"8">>),
      P(520, 105, <<"7">>),
      P(520, 100, <<"F", "C", "F", "A">>) }

InitSolde ==
    /\ pc = "document"
    /\ rows = empty_dict
    /\ sorted_keys = <<>>
    /\ current_tx = empty_dict
    /\ transactions = <<>>
    /\ line_words = <<>>
    /\ outcome = "none"
    /\ seen = <<>>
    /\ df = <<>>
    /\ df_clean = <<>>
    /\ amount = <<>>
    /\ doc \in {<<>>} \cup
               {<<page>> : page \in UNION {[1..n -> SoldeWords] : n \in 0..MaxWords}}
    /\ doc_again = <<>>
    /\ df_again = <<>>
    /\ solde_prec = 0
    /\ df_final = <<>>
    /\ pdf_files = <<>>
    /\ success_count = 0
    /\ attempted = <<>>

NextSolde == GetSoldePrecedent

SpecSolde == InitSolde /\ [][NextSolde]_vars

\* The words of the first page that hold the label, in the order of the list.
Labels == IF doc = <<>> THEN <<>>
          ELSE SelectSeq(doc[1], LAMBDA w : Contains(p_precedent, w.text))

\* The number built from the words of the first page that are numeric, lie
\* within 5 units of the first label vertically and satisfy Right, a condition
\* on the word and the label; 0 without label or without such word.
BalanceRead(Right(_, _)) ==
    IF Labels = <<>> THEN 0
    ELSE LET label == Labels[1]
             parts == SelectSeq(doc[1], LAMBDA w :
                         /\ w.y0 - label.y0 \in -4..4
                         /\ Right(w, label)
                         /\ \A i \in 1..Len(w.text) :
                               w.text[i] \in Digits \cup {".", ","})
         IN  DigitsValue(join(<<>>, texts_of(parts)))

RightOfLabel(w, label) == w.x0 > label.x0
RightOf300(w, label) == w.x0 > 300

(***************************************************************************)
(* C15 as stated: get_solde_precedent returns the number built from the    *)
(* numeric words on the visual line of the first word that holds           *)
(* "précédent" (within 5 units vertically) and to the right of that label  *)
(* word; other words never contribute; 0 without label or such word.       *)
(***************************************************************************)
C15_Original ==
    pc = "balance" => solde_prec = BalanceRead(RightOfLabel)

\* What the function computes: the numeric words of the label's line that lie
\* right of the fixed abscissa 300, wherever the label word is.
SoldeByThreshold ==
    pc = "balance" => solde_prec = BalanceRead(RightOf300)

\* A label right of 300 with an amount on its left, on the same line.
AmountLeftOfLabel ==
    /\ pc = "balance"
    /\ doc # <<>>
    /\ Len(doc[1]) = 2
    /\ doc[1][1].x0 = 400
    /\ doc[1][2].x0 = 350
    /\ solde_prec = 8

(***************************************************************************)
(* analyze_and_export: the table written to the export files.              *)
(***************************************************************************)
s_SOLDE_PRECEDENT ==
    <<"S", "O", "L", "D", "E", " ", "P", "R", "E", "C", "E", "D", "E", "N", "T">>

\* pd.to_datetime(column).dt.strftime('%d/%m/%Y') for one value: the text of
\* the date <<year, month, day>>, the missing marker for NaT.
strftime(d) ==
    IF d = NaT THEN NaT
    ELSE <<ToString(d[3] \div 10), ToString(d[3] % 10), "/",
           ToString(d[2] \div 10), ToString(d[2] % 10), "/",
           ToString(d[1] \div 1000), ToString((d[1] \div 100) % 10),
           ToString((d[1] \div 10) % 10), ToString(d[1] % 10)>>

\* The row of the preceding balance, dated as the first row of the table.
row_solde(first_date, solde_precedent) ==
    [date |-> first_date, date_valeur |-> first_date,
     libelle |-> s_SOLDE_PRECEDENT,
     debit |-> 0, credit |-> 0, solde |-> solde_precedent]

\* The row of the preceding balance placed after the rows of the table.
analyze_and_export_appended(table, solde_precedent) ==
    LET df_fin == IF solde_precedent # 0
                  THEN table \o <<row_solde(table[1].date, solde_precedent)>>
                  ELSE table
    IN  IF table = <<>> THEN <<>>
        ELSE [i \in 1..Len(df_fin) |->
                [df_fin[i] EXCEPT !.date = strftime(@), !.date_valeur = strftime(@)]]

\* The table df_export written to the csv and xlsx files; <<>> when the
\* function returns before writing, its table being empty.
analyze_and_export(table, solde_precedent) ==
    LET df_fin == IF solde_precedent # 0
                  THEN <<row_solde(table[1].date, solde_precedent)>> \o table
                  ELSE table
    IN  IF table = <<>> THEN <<>>
        ELSE [i \in 1..Len(df_fin) |->
                [df_fin[i] EXCEPT !.date = strftime(@), !.date_valeur = strftime(@)]]

\* analyze_and_export(df_clean, pdf_name, solde_prec) in run_full_extraction.
AnalyzeAndExport ==
    /\ pc = "cleaned"
    /\ df_final' = analyze_and_export(df_clean, solde_prec)
    /\ pc' = "exported"
    /\ UNCHANGED scan_vars
    /\ UNCHANGED <<df, df_clean, amount>>
    /\ UNCHANGED <<doc, doc_again, df_again, solde_prec,
                   pdf_files, success_count, attempted>>

\* A table handed over by the extraction, with the preceding balance read
\* from the document: none (0.0) or 12.
InitExport ==
    /\ pc = "extracted"
    /\ rows = empty_dict
    /\ sorted_keys = <<>>
    /\ current_tx = empty_dict
    /\ transactions = <<>>
    /\ line_words = <<>>
    /\ outcome = "none"
    /\ seen = <<>>
    /\ df \in UNION {Tables(n) : n \in 1..MaxRows}
    /\ df_clean = <<>>
    /\ amount = <<>>
    /\ doc = <<>>
    /\ doc_again = <<>>
    /\ df_again = <<>>
    /\ solde_prec \in {0, 12}
    /\ df_final = <<>>
    /\ pdf_files = <<>>
    /\ success_count = 0
    /\ attempted = <<>>

NextExport == CleanAndFormat \/ AnalyzeAndExport

SpecExport == InitExport /\ [][NextExport]_vars

\* The row of the exported table is the row of the transaction table, its
\* dates written as texts.
SameRow(exported, r) ==
    /\ exported.libelle = r.libelle
    /\ exported.debit = r.debit
    /\ exported.credit = r.credit
    /\ exported.solde = r.solde
    /\ DateParts(exported.date) = r.date
    /\ IF r.date_valeur = NaT THEN exported.date_valeur = NaT
       ELSE DateParts(exported.date_valeur) = r.date_valeur

(***************************************************************************)
(* C14: in analyze_and_export, when a preceding balance was detected (it   *)
(* is not 0) and the transaction table is not empty, the exported table is *)
(* the transaction rows in unchanged order preceded by exactly one row     *)
(* with libelle "SOLDE PRECEDENT", debit 0, credit 0 and solde the         *)
(* preceding balance; when none was detected the exported table is         *)
(* exactly the transaction rows.                                           *)
(***************************************************************************)
C14_SoldeRow ==
    (pc = "exported" /\ df_clean # <<>>) =>
        LET lead == IF solde_prec # 0 THEN 1 ELSE 0
        IN  /\ Len(df_final) = Len(df_clean) + lead
            /\ \A i \in 1..Len(df_clean) : SameRow(df_final[i + lead], df_clean[i])
            /\ lead = 1 =>
                  /\ df_final[1].libelle = s_SOLDE_PRECEDENT
                  /\ df_final[1].debit = 0
                  /\ df_final[1].credit = 0
                  /\ df_final[1].solde = solde_prec
            /\ \A i \in (lead + 1)..Len(df_final) :
                  df_final[i].libelle # s_SOLDE_PRECEDENT

\* A table of two transactions exported behind the row of a balance of 12.
C14_Witness ==
    /\ pc = "exported"
    /\ solde_prec = 12
    /\ Len(df_clean) = 2
    /\ Len(df_final) = 3
    /\ df_final[1].libelle = s_SOLDE_PRECEDENT
    /\ df_final[1].solde = 12
    /\ df_final[2].libelle = df_clean[1].libelle

(***************************************************************************)
(* run_full_extraction: the batch over the PDF files of a directory.       *)
(***************************************************************************)
MaxFiles == 3

\* f.lower().endswith(".pdf")
is_pdf(f) ==
    /\ Len(f) >= 4
    /\ f[Len(f) - 3] = "."
    /\ f[Len(f) - 2] \in {"p", "P"}
    /\ f[Len(f) - 1] \in {"d", "D"}
    /\ f[Len(f)] \in {"f", "F"}

\* int(re.search(r'\d+', x).group()) if re.search(r'\d+', x) else 0
first_number(x) ==
    LET ds == {i \in 1..Len(x) : x[i] \in Digits}
    IN  IF ds = {} THEN 0
        ELSE LET a == CHOOSE i \in ds : \A j \in ds : i <= j
                 b == CHOOSE j \in a..Len(x) :
                         /\ \A k \in a..j : x[k] \in Digits
                         /\ j = Len(x) \/ x[j + 1] \notin Digits
             IN  to_float(SubSeq(x, a, b))

\* pdf_files.sort(key=...): ascending keys, files of equal key in the order
\* they had (list.sort is stable).
sort_pdf_files(files) ==
    LET n == Len(files)
        p == CHOOSE q \in [1..n -> 1..n] :
                /\ \A i, j \in 1..n : i # j => q[i] # q[j]
                /\ \A i, j \in 1..n : i < j =>
                      \/ first_number(files[q[i]]) < first_number(files[q[j]])
                      \/ /\ first_number(files[q[i]]) = first_number(files[q[j]])
                         /\ q[i] < q[j]
    IN  [i \in 1..n |-> files[p[i]]]

\* The files of a source directory: the name, whether fitz.open reads the
\* file, its pages, and whether the export files can be written.
Directory ==
    { [name |-> <<"p", "1", "0", ".", "p", "d", "f">>, readable |-> TRUE, writable |-> TRUE,
       pages |-> <<page_words(<< <<W(216, p_precedent), W(520, <<"1", "2">>)>>,
                                 <<W(50, t_d1), W(100, t_ACHAT), W(360, t_7)>> >>, 1)>>],
      [name |-> <<"p", "2", ".", "p", "d", "f">>, readable |-> FALSE, writable |-> TRUE,
       pages |-> <<>>],
      [name |-> <<"a", "2", "b", "9", ".", "p", "d", "f">>, readable |-> TRUE, writable |-> FALSE,
       pages |-> <<page_words(<< <<W(50, t_d3), W(100, t_VIR)>> >>, 1)>>],
      [name |-> <<"p", "3", ".", "P", "D", "F">>, readable |-> TRUE, writable |-> TRUE,
       pages |-> <<page_words(<< <<W(50, t_d3), W(100, t_CARTE)>> >>, 1),
                   page_words(<< <<W(100, t_VIR)>> >>, 1)>>],
      [name |-> <<"r", ".", "p", "d", "f">>, readable |-> TRUE, writable |-> TRUE,
       pages |-> <<page_words(<< <<W(100, t_ACHAT)>> >>, 1)>>],
      [name |-> <<"p", "7", ".", "p", "d", "f">>, readable |-> TRUE, writable |-> FALSE,
       pages |-> <<page_words(<< <<W(50, t_d2), W(100, t_VIR)>> >>, 1)>>],
      [name |-> <<"n", "1", ".", "t", "x", "t">>, readable |-> FALSE, writable |-> TRUE,
       pages |-> <<>>] }

\* The file os.path.join(source_dir, filename).
FileContent(filename) == CHOOSE f \in Directory : f.name = filename

\* The state after line 89: the PDF files of the listing, in the order of
\* os.listdir.
InitBatch ==
    /\ pc = "listed"
    /\ rows = empty_dict
    /\ sorted_keys = <<>>
    /\ current_tx = empty_dict
    /\ transactions = <<>>
    /\ line_words = <<>>
    /\ outcome = "none"
    /\ seen = <<>>
    /\ df = <<>>
    /\ df_clean = <<>>
    /\ amount = <<>>
    /\ doc = <<>>
    /\ doc_again = <<>>
    /\ df_again = <<>>
    /\ solde_prec = 0
    /\ df_final = <<>>
    /\ \E listing \in UNION {[1..n -> {f.name : f \in Directory}] : n \in 0..MaxFiles} :
          /\ \A i, j \in 1..Len(listing) : i # j => listing[i] # listing[j]
          /\ pdf_files = SelectSeq(listing, is_pdf)
    /\ success_count = 0
    /\ attempted = <<>>

\* Lines 92 to 96.
SortPdfFiles ==
    /\ pc = "listed"
    /\ pdf_files' = sort_pdf_files(pdf_files)
    /\ success_count' = 0
    /\ pc' = "batch"
    /\ UNCHANGED scan_vars
    /\ UNCHANGED <<df, df_clean, amount>>
    /\ UNCHANGED <<doc, doc_again, df_again, solde_prec, df_final, attempted>>

\* The body of the loop without its try, an exception leaving the function.
ProcessPdf_unguarded ==
    /\ pc = "batch"
    /\ Len(attempted) < Len(pdf_files)
    /\ LET filename == pdf_files[Len(attempted) + 1]
           f     == FileContent(filename)
           solde == IF f.readable THEN get_solde_precedent(f.pages) ELSE 0
           table == IF f.readable THEN extract_transactions_from_pdf(f.pages) ELSE <<>>
           log(raised) == Append(attempted, [filename |-> filename, raised |-> raised])
       IN  /\ solde_prec' = solde
           /\ IF ~f.readable
              THEN /\ attempted' = log(TRUE)
                   /\ pc' = "aborted"
                   /\ UNCHANGED <<df, df_clean, df_final, success_count>>
              ELSE IF table = <<>>
              THEN /\ df' = table
                   /\ attempted' = log(FALSE)
                   /\ pc' = "batch"
                   /\ UNCHANGED <<df_clean, df_final, success_count>>
              ELSE \E c \in clean_and_format_dataframe(table) :
                   /\ df' = table
                   /\ df_clean' = c
                   /\ IF c # <<>> /\ ~f.writable
                      THEN /\ attempted' = log(TRUE)
                           /\ pc' = "aborted"
                           /\ UNCHANGED <<df_final, success_count>>
                      ELSE /\ df_final' = analyze_and_export(c, solde)
                           /\ success_count' = success_count + 1
                           /\ attempted' = log(FALSE)
                           /\ pc' = "batch"
    /\ UNCHANGED scan_vars
    /\ UNCHANGED <<amount, doc, doc_again, df_again, pdf_files>>

\* One turn of the loop over pdf_files: the try block and its except clause.
\* fitz.open raises on a file it cannot read: get_solde_precedent catches it
\* and returns 0.0, extract_transactions_from_pdf lets it through; the export
\* raises when its files cannot be written.
ProcessPdf ==
    /\ pc = "batch"
    /\ Len(attempted) < Len(pdf_files)
    /\ LET filename == pdf_files[Len(attempted) + 1]
           f     == FileContent(filename)
           solde == IF f.readable THEN get_solde_precedent(f.pages) ELSE 0
           table == IF f.readable THEN extract_transactions_from_pdf(f.pages) ELSE <<>>
           log(raised) == Append(attempted, [filename |-> filename, raised |-> raised])
       IN  /\ solde_prec' = solde
           /\ IF ~f.readable
              THEN /\ attempted' = log(TRUE)
                   /\ pc' = "batch"
                   /\ UNCHANGED <<df, df_clean, df_final, success_count>>
              ELSE IF table = <<>>
              THEN /\ df' = table
                   /\ attempted' = log(FALSE)
                   /\ pc' = "batch"
                   /\ UNCHANGED <<df_clean, df_final, success_count>>
              ELSE \E c \in clean_and_format_dataframe(table) :
                   /\ df' = table
                   /\ df_clean' = c
                   /\ IF c # <<>> /\ ~f.writable
                      THEN /\ attempted' = log(TRUE)
                           /\ pc' = "batch"
                           /\ UNCHANGED <<df_final, success_count>>
                      ELSE /\ df_final' = analyze_and_export(c, solde)
                           /\ success_count' = success_count + 1
                           /\ attempted' = log(FALSE)
                           /\ pc' = "batch"
    /\ UNCHANGED scan_vars
    /\ UNCHANGED <<amount, doc, doc_again, df_again, pdf_files>>

NextBatch == SortPdfFiles \/ ProcessPdf

SpecBatch == InitBatch /\ [][NextBatch]_vars

\* The first number written in a file name, 0 when it holds no digit.
FirstNumber(name) ==
    LET starts == {i \in 1..Len(name) :
                      /\ name[i] \in Digits
                      /\ \A j \in 1..(i - 1) : name[j] \notin Digits}
    IN  IF starts = {} THEN 0
        ELSE LET i == CHOOSE k \in starts : TRUE
                 run == {n \in 1..4 : /\ i + n - 1 <= Len(name)
                                      /\ \A k \in i..(i + n - 1) : name[k] \in Digits}
             IN  DigitsValue(SubSeq(name, i, i + Cardinality(run) - 1))

\* What the document of a file brings about: an exception, a table.
Raises(f) ==
    \/ ~f.readable
    \/ /\ ~f.writable
       /\ \E r \in DOMAIN to_dataframe(flush(scan_pages(<<empty_dict, <<>>>>, f.pages)[2],
                                             scan_pages(<<empty_dict, <<>>>>, f.pages)[1])) :
             ValidDate(to_dataframe(flush(scan_pages(<<empty_dict, <<>>>>, f.pages)[2],
                                          scan_pages(<<empty_dict, <<>>>>, f.pages)[1]))[r].date)
ProducesTable(f) ==
    f.readable /\ extract_transactions_from_pdf(f.pages) # <<>>

(***************************************************************************)
(* C13: in run_full_extraction an exception raised while one PDF is        *)
(* processed is caught at the boundary of that document: the batch goes on *)
(* with the remaining PDFs, each PDF is attempted exactly once, in         *)
(* ascending order of the first number of its file name, and the success   *)
(* counter counts only the documents that produced a non-empty table       *)
(* without raising.                                                        *)
(***************************************************************************)
C13_Batch ==
    [][ /\ pc = "batch" =>
            /\ pc' = "batch"
            /\ Len(attempted') = Len(attempted) + 1
            /\ attempted'[Len(attempted')].filename = pdf_files[Len(attempted')]
            /\ pdf_files' = pdf_files
        /\ pc' = "batch" =>
            /\ \A i, j \in 1..Len(pdf_files') :
                  i < j => /\ pdf_files'[i] # pdf_files'[j]
                           /\ FirstNumber(pdf_files'[i]) <= FirstNumber(pdf_files'[j])
            /\ \A i \in 1..Len(attempted') :
                  /\ attempted'[i].filename = pdf_files'[i]
                  /\ attempted'[i].raised = Raises(FileContent(pdf_files'[i]))
            /\ success_count' =
                  Cardinality({i \in 1..Len(attempted') :
                                  /\ ~attempted'[i].raised
                                  /\ ProducesTable(FileContent(pdf_files'[i]))})
        /\ pc = "listed" =>
            /\ Len(pdf_files') = Len(pdf_files)
            /\ \A i \in 1..Len(pdf_files) : \E j \in 1..Len(pdf_files') :
                  pdf_files'[j] = pdf_files[i]
      ]_vars

\* A batch of three PDFs attempted to its end: the first had no transaction,
\* the second raised, the third was exported and counted.
C13_Witness ==
    /\ pc = "batch"
    /\ Len(pdf_files) = 3
    /\ Len(attempted) = 3
    /\ ~attempted[1].raised
    /\ attempted[2].raised
    /\ ~attempted[3].raised
    /\ FirstNumber(pdf_files[1]) = 0
    /\ FirstNumber(pdf_files[2]) = 2
    /\ FirstNumber(pdf_files[3]) = 10
    /\ df_final # <<>>
    /\ success_count = 1

(***************************************************************************)
(* Statements whose lines hold the words "Date" and "Page".                *)
(***************************************************************************)
\* A transaction with "Date" in its description, a line with "Page" and
\* "Date", a pagination marker, a line with a date and "Page".
GuardCatalogue ==
    { <<W(50, t_d1), W(100, p_Date)>>,
      <<W(100, p_Page), W(150, p_Date)>>,
      <<W(100, p_Page), W(150, <<"1", "/", "3">>)>>,
      <<W(50, t_d3), W(100, p_Page)>> }

NextGuard ==
    \/ NextPage(GuardCatalogue)
    \/ ProcessLine
    \/ ReturnTable
    \/ CleanAndFormat

SpecGuard == Init /\ [][NextGuard]_vars

\* The text holds a guarded word without what its guard asks for, and no
\* other word of the denylist.
GuardedOnly(text) ==
    /\ \/ Contains(p_Date, text) /\ ~Contains(p_Libelle, text)
       \/ Contains(p_Page, text) /\ ~Contains(<<"/">>, text)
    /\ Contains(p_Page, text) => ~Contains(<<"/">>, text)
    /\ \A i \in 1..Len(ignore_patterns) :
          ignore_patterns[i] \notin {p_Date, p_Page} => ~Contains(ignore_patterns[i], text)

(***************************************************************************)
(* C16: the two guarded literals of the denylist make a line noise only    *)
(* under their guard: a line whose joined text, after truncation, holds    *)
(* "Date" but not "Libellé", or "Page" but no "/", and no other literal of *)
(* the denylist, is kept and starts or continues a transaction; a line     *)
(* that holds "Page" together with "/" is noise.                           *)
(***************************************************************************)
C16_Guards ==
    [][ pc = "line" =>
          LET line == AfterTruncation(seen'[Len(seen')])
              text == JoinedText(line)
          IN  /\ (line # <<>> /\ GuardedOnly(text)) =>
                    outcome' = IF StartCondition(line) THEN "start"
                               ELSE IF DOMAIN current_tx = {}
                                    THEN "discarded"
                                    ELSE "continuation"
              /\ (Contains(p_Page, text) /\ Contains(<<"/">>, text)) =>
                    /\ outcome' = "noise"
                    /\ current_tx' = current_tx
                    /\ transactions' = transactions ]_vars

\* A line with "Page" and "Date" has continued a transaction whose
\* description holds "Date".
C16_Witness ==
    /\ pc = "line"
    /\ outcome = "continuation"
    /\ Contains(p_Page, JoinedText(line_words))
    /\ Contains(p_Date, current_tx["Libellé"])
    /\ Contains(p_Page, current_tx["Libellé"])
    /\ Contains(t_d1, current_tx["Date"])

(***************************************************************************)
(* C17: while no start line has been kept yet in the document, a kept line *)
(* that is no transaction start is discarded: the output collection stays  *)
(* empty, no transaction is open, and none of its words reaches a field of *)
(* a later transaction (the transaction that the first start opens holds   *)
(* the words of its own line only).  If no start line is ever kept, the    *)
(* function returns an empty table.                                        *)
(***************************************************************************)
C17_Discard ==
    [][ /\ (pc = "line" /\ StartRows = {}) =>
             LET r == seen'[Len(seen')]
             IN  /\ transactions' = <<>>
                 /\ (IsKept(r) /\ ~StartsTx(r)) =>
                       /\ outcome' = "discarded"
                       /\ DOMAIN current_tx' = {}
                 /\ StartsTx(r) =>
                       /\ outcome' = "start"
                       /\ \A col \in tx_keys :
                             current_tx'[col] = Collected(col, truncate(r))
        /\ (\A i \in 1..Len(seen') : ~StartsTx(seen'[i])) =>
             /\ DOMAIN current_tx' = {}
             /\ transactions' = <<>>
             /\ pc' \in {"extracted", "cleaned"} => df' = <<>> ]_vars

\* A kept line with a description came before the only start of a document:
\* the table returned has one row, without the words of that line.
C17_Witness ==
    /\ pc = "extracted"
    /\ Len(seen) = 2
    /\ IsKept(seen[1])
    /\ ~StartsTx(seen[1])
    /\ Collected("Libellé", truncate(seen[1])) = t_VIR \o <<" ">>
    /\ StartsTx(seen[2])
    /\ Len(df) = 1
    /\ df[1].libelle = t_ACHAT

\* The text holds a literal of the denylist that needs no guard.
HoldsLiteral(text) ==
    \E i \in 1..Len(ignore_patterns) :
       ignore_patterns[i] \notin {p_Date, p_Page} /\ Contains(ignore_patterns[i], text)

(***************************************************************************)
(* C18: the noise filter comes before the detection of a transaction       *)
(* start: a noise line (its text holds "Solde", "Valeur", "ORABANK", ...)  *)
(* whose leftmost word is a valid DD/MM/YYYY date left of date_limit does  *)
(* not flush the open transaction and opens none; the transaction open     *)
(* before it stays open and the continuation lines that follow go to it.   *)
(***************************************************************************)
C18_NoisePriority ==
    [][ pc = "line" =>
          LET line == AfterTruncation(seen'[Len(seen')])
          IN  /\ (/\ StartCondition(seen'[Len(seen')])
                  /\ HoldsLiteral(JoinedText(seen'[Len(seen')]))
                  /\ line # <<>>
                  /\ StartCondition(line)
                  /\ HoldsLiteral(JoinedText(line))) =>
                    /\ outcome' = "noise"
                    /\ current_tx' = current_tx
                    /\ transactions' = transactions
              /\ (/\ outcome = "noise"
                  /\ StartCondition(line_words)
                  /\ DOMAIN current_tx # {}
                  /\ outcome' \in {"continuation", "discarded"}) =>
                    /\ outcome' = "continuation"
                    /\ transactions' = transactions
                    /\ current_tx'["Date"] = current_tx["Date"]
                    /\ \A col \in tx_keys \ {"Date"} :
                          current_tx'[col] = current_tx[col] \o Collected(col, line) ]_vars

\* A start, a footer line that begins with a date, a continuation: the
\* continuation went to the transaction of the start, which is still open.
C18_Witness ==
    /\ pc = "line"
    /\ Len(seen) = 3
    /\ StartsTx(seen[1])
    /\ StartCondition(seen[2])
    /\ Contains(p_Orabank, JoinedText(seen[2]))
    /\ outcome = "continuation"
    /\ transactions = <<>>
    /\ current_tx["Libellé"] = t_ACHAT \o <<" ">> \o t_VIR \o <<" ">>

====
